---- MODULE Spec2Model ----
(***************************************************************************)
(* pymodbus asynchronous server (pymodbus/server/async_io.py).             *)
(*                                                                         *)
(* Spec      one connection served by ModbusServerRequestHandler: chunks   *)
(*           arrive on the receive queue, the handler task feeds them to   *)
(*           the framer, execute() runs every accepted request against the *)
(*           server context and send() writes the answer on the transport. *)
(* SpecEcho  the local echo bookkeeping of a serial connection (_send_ and *)
(*           data_received) on byte strings.                               *)
(*                                                                         *)
(* The framers, the PDU classes and the datastore are not part of          *)
(* async_io.py; they are modelled from their description (section 4 of the *)
(* specification) and are marked so in MODEL_MAP.json.                     *)
(***************************************************************************)
EXTENDS Integers, Sequences, FiniteSets, TLC

\* ------------------------------------------------------------------ bounds
\* Requests received on the connection.
MaxReq == 2
\* Frames carried by one received chunk.
MaxChunk == 2
\* Changes the application makes to the set of slave contexts.
MaxCtxChanges == 1
\* Operations (_send_ / data_received) of the local echo specification.
MaxEchoOps == 3
\* Length of a byte string written by _send_.
MaxSendLen == 2
\* Length of a byte string delivered to data_received.
MaxDataLen == 3
\* Servers started in the process.
MaxServers == 2
\* Client connections accepted by one server.
MaxConns == 2
\* Client connections accepted by each server while several servers run.
MaxConnsEach == 1
\* Responses written by one handler.
MaxWrites == 1
\* Calls of ServerAsyncStop / ServerStop.
MaxStops == 2
\* Length of the transport layer's recv_buffer.
MaxRecvLen == 4

\* ------------------------------------------------------- program constants
\* merror.SlaveFailure and merror.GatewayNoResponse (pymodbus.pdu).
SlaveFailure == 4
GatewayNoResponse == 11

\* ---------------------------------------------------------------- helpers
Min(a, b) == IF a < b THEN a ELSE b

\* Python bytes: s[i:] for a 0-based i.
DropFirst(s, n) == SubSeq(s, n + 1, Len(s))

\* bytes.startswith
StartsWith(s, p) == Len(p) <= Len(s) /\ SubSeq(s, 1, Len(p)) = p

\* bytes.find: the lowest 1-based index where p occurs in s, 0 when it does not.
Find(s, p) ==
    LET hits == {i \in 1..(Len(s) - Len(p) + 1) : SubSeq(s, i, i + Len(p) - 1) = p}
    IN  IF hits = {} THEN 0 ELSE CHOOSE i \in hits : \A j \in hits : i <= j

\* p in s
Contains(s, p) == Find(s, p) # 0

\* Mutant of RemoveFirst: replace without the count argument removes every
\* occurrence.
RECURSIVE RemoveAll(_, _)
RemoveAll(s, p) ==
    LET i == Find(s, p)
    IN  IF i = 0 \/ p = <<>> THEN s
        ELSE SubSeq(s, 1, i - 1) \o RemoveAll(SubSeq(s, i + Len(p), Len(s)), p)

\* s.replace(p, b"", 1): s without the first occurrence of p.
RemoveFirst(s, p) ==
    LET i == Find(s, p)
    IN  IF i = 0 THEN s
        ELSE SubSeq(s, 1, i - 1) \o SubSeq(s, i + Len(p), Len(s))

\* All sequences over S of length lo..hi.
SeqsOf(S, lo, hi) == UNION {[1..n -> S] : n \in lo..hi}

\* ------------------------------------------------------------------ state
VARIABLES
    server,         \* the owning server's policy flags (ModbusTcpServer.__init__ ...)
    transport_kind, \* "stream" (TCP, TLS, Unix, serial) or "datagram" (UDP)
    context,        \* server.context: [single, ids]; ids in insertion order
    store,          \* register 5 of every slave context: the request that wrote it last
    ctx_changes,    \* changes made to the set of slave contexts so far
    running,        \* handler.running
    receive_queue,  \* handler.receive_queue
    sent,           \* handler._sent
    framer_buffer,  \* the frames the handler's framer holds between two calls
    slaves,         \* the local variable slaves of handle(), taken before the await
    task,           \* handler_task: "recv" (suspended in _recv_), "done", "failed"
    must_cancel,    \* handler_task.cancel() was called and not yet delivered
    transport_open, \* handler.transport has not been closed
    lost,           \* connection_lost was called
    active,         \* client_address is a key of server.active_connections
    written,        \* every transport.write / transport.sendto call, in order
    nreq,           \* requests received so far
    requests,       \* the requests received, in arrival order (history)
    handled,        \* one record per frame the framer extracted (history)
    unechoed,       \* bytes written by _send_ whose echo has not come back (history)
    echo_ops,       \* operations of the local echo specification so far
    echo_clean,     \* no chunk so far mixed request bytes into an unfinished echo (history)
    last,           \* the last data_received call (history)
    active_server,  \* _serverList.active_server: NoServer or the registered server
    srv,            \* the server objects: their fields and the position of Start*Server
    conn,           \* the handlers the servers created, per server and connection
    stops,          \* the calls of ServerAsyncStop / ServerStop, in call order
    tp              \* the transport layer object: its fields and its last call

vars == <<server, transport_kind, context, store, ctx_changes, running,
          receive_queue, sent, framer_buffer, slaves, task, must_cancel, transport_open, lost,
          active, written, nreq, requests, handled, unechoed, echo_ops, echo_clean,
          last, active_server, srv, conn, stops, tp>>

handlerVars == <<running, slaves, task, must_cancel, transport_open, lost, active>>
historyVars == <<nreq, requests, handled>>
echoVars == <<unechoed, echo_ops, echo_clean, last>>
configVars == <<server, transport_kind, tp>>
lifecycleVars == <<active_server, srv, conn, stops>>

None == "None"

\* Slave ids that appear in requests: 0 is the broadcast address, 1 is held by
\* the multi-slave context, 3 never is.
RequestSlaves == {0, 1, 3}
\* Slave ids a multi-slave context may hold.
ContextIds == {1, 2}
\* What the execution of a request does: "write" and "silent" write register
\* 5, and the answer to "silent" has should_respond = False; the execution of
\* "raise" raises an error other than NoSuchSlaveException.
RequestKinds == {"write", "silent", "raise"}
\* The component that raises while the request is handled, if any: the framer
\* while decoding, the request tracer, the response manipulator, or
\* buildPacket / the transport while the answer is sent.
Faults == {"framer", "tracer", "manip", "send"}
\* response_manipulator: absent, or a callable returning (another response,
\* False), or a callable returning (response, True).
Manipulators == {"none", "alter", "raw"}
PeerAddrs == {"peerA", "peerB"}

\* ------------------------------------------------- datastore (ServerContext)
\* context.slaves()
ContextSlaves(ctx) == IF ctx.single THEN <<0>> ELSE ctx.ids

InSeq(x, s) == \E i \in 1..Len(s) : s[i] = x

\* The outcome of a lookup that raises NoSuchSlaveException.
NoSuchSlave == -1

\* context[slave_id]: the key of the slave context, or NoSuchSlave.
ContextGet(ctx, slave_id) ==
    IF ctx.single THEN 0
    ELSE IF InSeq(slave_id, ctx.ids) THEN slave_id ELSE NoSuchSlave

\* ------------------------------------------------------------ PDU classes
NoResponse ==
    [req |-> 0, transaction_id |-> 0, slave_id |-> 0, kind |-> "unbound",
     code |-> 0, should_respond |-> FALSE]

\* request.execute(slave_context): raises, or writes the register and returns
\* a response (a fresh PDU: transaction_id and slave_id at their defaults).
RequestExecute(request, st, key) ==
    IF request.kind = "raise"
    THEN [raised |-> TRUE, store |-> st, response |-> NoResponse]
    ELSE [raised |-> FALSE,
          store |-> [st EXCEPT ![key] = request.seq],
          response |-> [req |-> request.seq, transaction_id |-> 0, slave_id |-> 0,
                        kind |-> "normal", code |-> 0,
                        should_respond |-> request.kind # "silent"]]

\* request.doException(code)
DoException(request, code) ==
    [req |-> request.seq, transaction_id |-> 0, slave_id |-> 0,
     kind |-> "exception", code |-> code, should_respond |-> TRUE]

\* framer.buildPacket(message): the frame carries the message's transaction
\* id, slave id and PDU.
BuildPacket(message) ==
    [req |-> message.req, transaction_id |-> message.transaction_id,
     slave_id |-> message.slave_id, kind |-> message.kind, code |-> message.code,
     raw |-> FALSE]

\* The message object itself, handed to the transport when skip_encoding.
RawPacket(message) == [BuildPacket(message) EXCEPT !.raw = TRUE]


\* ------------------------------------------- ModbusServerRequestHandler
\* The state one task step works on: the fields of the handler, the
\* transport and the datastore that execute() and send() read and write.
StepState ==
    [store |-> store, written |-> written, sent |-> sent, handled |-> handled,
     buffer |-> framer_buffer, open |-> transport_open, raised |-> FALSE]

\* _send_, second half: with handle_local_echo the data written is kept in _sent.
SentAfterSend(old, data) == IF server.handle_local_echo = TRUE THEN data ELSE old

\* send.__send: _send_ (transport.write) on a stream, transport.sendto(msg, addr)
\* for a datagram.  fault: the transport raises.
SendBytes(st, packet, addr, fault) ==
    IF fault THEN [st EXCEPT !.raised = TRUE]
    ELSE LET w == [packet |-> packet, addr |-> addr, open |-> st.open]
         IN  IF addr = None
             THEN [st EXCEPT !.written = Append(@, w),
                             !.sent = SentAfterSend(@, <<packet>>)]
             ELSE [st EXCEPT !.written = Append(@, w)]

\* send(message, *addr, skip_encoding=...)
Send(st, message, addr, skip_encoding, fault) ==
    IF skip_encoding THEN SendBytes(st, RawPacket(message), addr, fault)
    ELSE IF message.should_respond
         THEN SendBytes(st, BuildPacket(message), addr, fault)
         ELSE st

\* server.response_manipulator(response) -> (response, skip_encoding)
Manipulate(response) ==
    CASE server.response_manipulator = "none" ->
            [response |-> response, skip_encoding |-> FALSE]
      [] server.response_manipulator = "alter" ->
            [response |-> [response EXCEPT !.kind = "manipulated", !.code = 0,
                                           !.should_respond = TRUE],
             skip_encoding |-> FALSE]
      [] server.response_manipulator = "raw" ->
            [response |-> response, skip_encoding |-> TRUE]

\* execute(), lines 245-246: the request is executed on the slave contexts in
\* the order of context.slaves(); the first execution that raises ends the loop.
RECURSIVE BroadcastLoop(_, _, _, _, _)
BroadcastLoop(request, ids, st, executed, response) ==
    IF ids = <<>>
    THEN [exc |-> "none", store |-> st, executed |-> executed, response |-> response]
    ELSE LET r == RequestExecute(request, st, ContextGet(context, Head(ids)))
         IN  IF r.raised
             THEN [exc |-> "other", store |-> r.store,
                   executed |-> Append(executed, Head(ids)), response |-> response]
             ELSE BroadcastLoop(request, Tail(ids), r.store,
                                Append(executed, Head(ids)), r.response)

\* execute(), line 241
IsBroadcast(request) == server.broadcast_enable /\ request.slave_id = 0

\* execute(), the try block (lines 240-249): exc is "none", "nss"
\* (NoSuchSlaveException) or "other".
TryExecute(request, st) ==
    IF IsBroadcast(request)
    THEN BroadcastLoop(request, ContextSlaves(context), st, <<>>, NoResponse)
    ELSE LET key == ContextGet(context, request.slave_id)
         IN  IF key = NoSuchSlave
             THEN [exc |-> "nss", store |-> st, executed |-> <<>>,
                   response |-> NoResponse]
             ELSE LET r == RequestExecute(request, st, key)
                  IN  [exc |-> IF r.raised THEN "other" ELSE "none",
                       store |-> r.store, executed |-> <<key>>,
                       response |-> r.response]

\* Mutant of AfterExcept: ignore_missing_slaves is not looked at.
AfterExceptAnswersMissing(request, t) ==
    CASE t.exc = "nss" ->
            [returns |-> FALSE, response |-> DoException(request, GatewayNoResponse)]
      [] t.exc = "other" ->
            [returns |-> FALSE, response |-> DoException(request, SlaveFailure)]
      [] OTHER -> [returns |-> FALSE, response |-> t.response]

\* Mutant of AfterExcept: the two exception codes are swapped.
AfterExceptSwappedCodes(request, t) ==
    CASE t.exc = "nss" ->
            IF server.ignore_missing_slaves
            THEN [returns |-> TRUE, response |-> NoResponse]
            ELSE [returns |-> FALSE, response |-> DoException(request, SlaveFailure)]
      [] t.exc = "other" ->
            [returns |-> FALSE, response |-> DoException(request, GatewayNoResponse)]
      [] OTHER -> [returns |-> FALSE, response |-> t.response]

\* execute(), lines 250-261: the response after the except clauses; returns is
\* TRUE when the handler returns without answering.
AfterExcept(request, t) ==
    CASE t.exc = "nss" ->
            IF server.ignore_missing_slaves
            THEN [returns |-> TRUE, response |-> NoResponse]
            ELSE [returns |-> FALSE, response |-> DoException(request, GatewayNoResponse)]
      [] t.exc = "other" ->
            [returns |-> FALSE, response |-> DoException(request, SlaveFailure)]
      [] OTHER -> [returns |-> FALSE, response |-> t.response]

\* Mutant of CopyIds: the response keeps its own ids.
CopyNothing(response, request) == response

\* execute(), lines 264-265
CopyIds(response, request) ==
    [response EXCEPT !.transaction_id = request.transaction_id,
                     !.slave_id = request.slave_id]

\* Mutant of Answers: the broadcast flag is not looked at.
AnswersAlways(request) == TRUE

\* execute(), line 263: whether the response goes on to send().
Answers(request) == ~IsBroadcast(request)

\* The history record of one frame; manipulated: the response was passed to
\* the response_manipulator; allowed: the slave list the framer was given with
\* the chunk of the frame.
Record(request, st0, st1, accepted, traced, t) ==
    [seq |-> request.seq, accepted |-> accepted, traced |-> traced,
     broadcast |-> accepted /\ IsBroadcast(request),
     ctx_slaves |-> ContextSlaves(context),
     known |-> ContextGet(context, request.slave_id) # NoSuchSlave,
     executed |-> t.executed, exc |-> t.exc,
     nwritten |-> Len(st1.written) - Len(st0.written),
     changed |-> st1.store # st0.store,
     raised |-> st1.raised,
     manipulated |-> FALSE,
     allowed |-> <<>>]

NotExecuted == [exc |-> "none", executed |-> <<>>]

\* execute(request, *addr)
Execute(st, request, addr) ==
    LET traced == server.request_tracer
    IN  IF traced /\ request.fault = "tracer"
        THEN LET st1 == [st EXCEPT !.raised = TRUE]
             IN  [st1 EXCEPT !.handled =
                     Append(@, Record(request, st, st1, TRUE, TRUE, NotExecuted))]
        ELSE
        LET t == TryExecute(request, st.store)
            a == AfterExcept(request, t)
            st1 == [st EXCEPT !.store = t.store]
            m == Manipulate(CopyIds(a.response, request))
            st2 == IF a.returns \/ ~Answers(request) THEN st1
                   ELSE IF server.response_manipulator # "none"
                           /\ request.fault = "manip"
                        THEN [st1 EXCEPT !.raised = TRUE]
                        ELSE Send(st1, m.response, addr, m.skip_encoding,
                                  request.fault = "send")
            \* line 267-268: the response_manipulator is called
            called == /\ ~a.returns /\ Answers(request)
                      /\ server.response_manipulator # "none"
        IN  [st2 EXCEPT !.handled =
                Append(@, [Record(request, st, st2, TRUE, traced, t)
                              EXCEPT !.manipulated = called])]

\* -------------------------------------------------------------- the framer
\* The record of a frame that was not dispatched.
Skipped(request, st, raised) ==
    [Record(request, st, st, FALSE, FALSE, NotExecuted) EXCEPT !.raised = raised]

\* framer.processIncomingPacket(data, callback, slave, single): the frames of
\* the accumulator are taken in order; a frame is dispatched when single is set
\* or its slave id is in the list, and dropped otherwise.  An error raised by
\* the decoder or by the callback leaves the rest in the accumulator.
RECURSIVE ProcessFrames(_, _, _, _, _)
ProcessFrames(st, frames, allowed, single, addr) ==
    IF frames = <<>> THEN [st EXCEPT !.buffer = <<>>]
    ELSE LET f == Head(frames)
         IN  IF f.fault = "framer"
             THEN [st EXCEPT !.raised = TRUE, !.buffer = Tail(frames),
                             !.handled = Append(@, Skipped(f, st, TRUE))]
             ELSE IF single \/ InSeq(f.slave_id, allowed)
             THEN LET st1 == Execute(st, f, addr)
                  IN  IF st1.raised THEN [st1 EXCEPT !.buffer = Tail(frames)]
                      ELSE ProcessFrames(st1, Tail(frames), allowed, single, addr)
             ELSE ProcessFrames([st EXCEPT !.handled = Append(@, Skipped(f, st, FALSE))],
                                Tail(frames), allowed, single, addr)

ProcessIncomingPacket(st, data, allowed, single, addr) ==
    ProcessFrames(st, st.buffer \o data, allowed, single, addr)

\* ------------------------------------------------------------- handle()
\* Mutant of Recv: the newest item is taken.
RecvLast(queue) ==
    [item |-> queue[Len(queue)], rest |-> SubSeq(queue, 1, Len(queue) - 1)]

\* _recv_: the next item of the receive queue.
Recv(queue) == [item |-> Head(queue), rest |-> Tail(queue)]

\* handle(), lines 191-193: 0 joins the slave list when broadcast is enabled.
SlavesAllowed(slv) ==
    IF server.broadcast_enable /\ ~InSeq(0, slv) THEN Append(slv, 0) ELSE slv

\* Mutant of HandleException: the error is not caught.
HandleExceptionNot(st) == st

\* handle(), lines 210-224: isinstance(self, ModbusServerRequestHandler) holds
\* for every handler, so the transport is closed and reset_frame stays False.
HandleException(st) == [st EXCEPT !.open = FALSE, !.raised = FALSE]

\* Mutant of ChunkAddr: the address of the datagram is dropped.
ChunkAddrNone(item) == None

\* handle(), lines 184-190: a datagram is queued as (data, addr) and addr is
\* handed to execute; a stream chunk has no address.
ChunkAddr(item) == item.addr

\* The records r added to those of st carry the slave list of their chunk.
PassedSlaves(st, r, allowed) ==
    [r EXCEPT !.handled =
        [i \in 1..Len(r.handled) |->
            IF i > Len(st.handled) THEN [r.handled[i] EXCEPT !.allowed = allowed]
            ELSE r.handled[i]]]

\* handle(), lines 183-203 with the except clause: one chunk.
HandleChunk(st, item, slv) ==
    LET r == PassedSlaves(st, ProcessIncomingPacket(st, item.data, SlavesAllowed(slv),
                                                     context.single, ChunkAddr(item)),
                          SlavesAllowed(slv))
    IN  IF r.raised THEN HandleException(r) ELSE r

\* handle(), the while loop from the moment the task is woken with data until
\* it is suspended in _recv_ again: receive_queue.get() does not suspend while
\* the queue holds items.  slv is the slave list taken before the await.  The
\* result carries the queue that is left and the slave list of the next wait.
RECURSIVE RunLoop(_, _, _)
RunLoop(st, queue, slv) ==
    IF st.raised \/ queue = <<>>
    THEN [st |-> st, queue |-> queue, slaves |-> slv]
    ELSE LET r == Recv(queue)
         IN  RunLoop(HandleChunk(st, r.item, slv), r.rest, ContextSlaves(context))

\* ------------------------------------------------------- data_received
\* Mutant of StripEcho: a chunk that holds only the beginning of _sent is
\* not recognised as echo.
StripEchoWhole(snt, data) ==
    IF server.handle_local_echo = TRUE /\ snt # <<>>
    THEN LET r == IF Contains(data, snt)
                  THEN [data |-> RemoveFirst(data, snt), sent |-> <<>>]
                  ELSE [data |-> data, sent |-> <<>>]
         IN  [sent |-> r.sent, data |-> r.data, put |-> r.data # <<>>]
    ELSE [sent |-> snt, data |-> data, put |-> TRUE]

\* data_received(data), lines 315-323: what is left of _sent and of data, and
\* whether data is put on the receive queue.
StripEcho(snt, data) ==
    IF server.handle_local_echo = TRUE /\ snt # <<>>
    THEN LET r == IF Contains(data, snt)
                  THEN [data |-> RemoveFirst(data, snt), sent |-> <<>>]
                  ELSE IF StartsWith(snt, data)
                  THEN [data |-> <<>>, sent |-> RemoveFirst(snt, data)]
                  ELSE [data |-> data, sent |-> <<>>]
         IN  [sent |-> r.sent, data |-> r.data, put |-> r.data # <<>>]
    ELSE [sent |-> snt, data |-> data, put |-> TRUE]

\* receive_queue.put_nowait
Put(queue, item) == Append(queue, item)

\* ------------------------------------------------------------ the requests
\* A chunk of n frames, numbered in arrival order; the client numbers its
\* transactions as it sends them.  peer, the address the chunk came from, is
\* history: the frames do not carry it.
Frames(n, shape) ==
    [i \in 1..n |-> [seq |-> nreq + i, transaction_id |-> nreq + i,
                     slave_id |-> shape[i].slave_id, kind |-> shape[i].kind,
                     fault |-> shape[i].fault, peer |-> None]]

\* The frames of a datagram received from addr.
FramesFrom(n, shape, addr) ==
    [i \in 1..n |-> [Frames(n, shape)[i] EXCEPT !.peer = addr]]

\* The requests a client sends: for every slave id a request that is answered,
\* answered silently, or fails in the datastore; and for slave 1 a write during
\* which one of the other components raises, and a request that fails in the
\* datastore and whose answer cannot be sent.
FrameShapes ==
    [slave_id : RequestSlaves, kind : RequestKinds, fault : {None}]
        \cup [slave_id : {1}, kind : {"write"}, fault : Faults]
        \cup [slave_id : {1}, kind : {"raise"}, fault : {"send"}]

\* The record of a data_received call: _sent before and after, the chunk, how
\* many of its leading bytes are the echo of written bytes, what was queued.
NoCall == [called |-> FALSE, sent_before |-> <<>>, data |-> <<>>, echo |-> 0,
           sent_after |-> <<>>, put |-> FALSE, queued |-> <<>>, qlen_before |-> 0]

\* ------------------------------------------------- servers (the objects)
\* _serverList.active_server = None
NoServer == 0

Servers == 1..MaxServers
Conns == 1..MaxConns
\* ModbusUnixServer, ModbusTcpServer (and ModbusTlsServer, which inherits
\* serve_forever and server_close), ModbusUdpServer, and ModbusSerialServer
\* on a port that is not of the socket: form.
ServerKinds == {"unix", "tcp", "udp", "serial"}

\* A server object after __init__ and before Start*Server runs.
\*   pc                 where the Start*Server coroutine is: "new", "connecting"
\*                      (in create_serial_connection), "creating" (in
\*                      create_unix_server / create_server /
\*                      create_datagram_endpoint), "serving", "returned", "raised"
\*   listener           self.server (self.protocol of a UDP server): "none",
\*                      "open" or "closed"
\*   fut_cancelled      close() has cancelled the listener's serve_forever
\*   reconnecting_task  "none", "sleeping" (in _delayed_connect) or "cancelled"
\*   attempts           calls of create_serial_connection
\*   active             the keys of active_connections
\*   request_tracer     whether self.request_tracer is set
\*   registers          how often the custom functions were registered in
\*                      self.decoder
\*   pending            the reconnect tasks created and not yet ended
\*   again              where a second call of serve_forever on the object is:
\*                      "none", "creating", "serving", "returned", "cancelled",
\*                      "raised" (the error of the creation), "RuntimeError",
\*                      "InvalidStateError"
\* and, as history: reconnect_at_cancel (what reconnecting_task was when
\* shutdown cancelled it), open_failed (the error create_serial_connection raised
\* in start(), or "none"), again_after_shutdown (a shutdown had returned and the
\* handle was None when serve_forever was called again), tracer_config (a request_tracer was among the keyword
\* arguments), found (the slot when Start*Server was called), began
\* (serving began), create_failed, shutdown_requested, shutdown_returned,
\* at_shutdown (the handlers active when the first shutdown started),
\* closed_by_shutdown (server_close closed the listener), attempts_at_shutdown.
NewServer(kind, auto_reconnect) ==
    [kind |-> kind, auto_reconnect |-> auto_reconnect, pc |-> "new",
     listener |-> "none", fut_cancelled |-> FALSE,
     serving |-> FALSE, serving_done |-> "pending", stop_serving |-> FALSE,
     transport |-> FALSE, protocol |-> FALSE, reconnecting_task |-> "none",
     attempts |-> 0, active |-> {},
     found |-> NoServer, began |-> FALSE, create_failed |-> FALSE,
     shutdown_requested |-> FALSE, shutdown_returned |-> FALSE,
     at_shutdown |-> {}, closed_by_shutdown |-> FALSE, attempts_at_shutdown |-> 0,
     request_tracer |-> FALSE, tracer_config |-> FALSE,
     again |-> "none", again_after_shutdown |-> FALSE,
     pending |-> 0, open_failed |-> "none", reconnect_at_cancel |-> "none",
     registers |-> 0]

\* self.request_tracer after __init__ with request_tracer=... among the
\* keyword arguments: lines 410 (Unix), 507 (TCP, TLS), 697 (UDP), 805 (serial).
RequestTracer(kind, configured) == kind = "tcp" /\ configured

\* A server object created with or without a request_tracer.
Traced(sv, configured) ==
    [sv EXCEPT !.tracer_config = configured,
               !.request_tracer = RequestTracer(sv.kind, configured)]

\* The handler of a connection that does not exist yet; hook_calls counts the
\* calls of server.on_connection_lost made by this handler, writes the
\* responses it has written to its transport, traced the calls of the
\* request_tracer it has made.
NoConn ==
    [exists |-> FALSE, open |-> FALSE, aborted |-> FALSE, lost |-> FALSE,
     task |-> "none", must_cancel |-> FALSE, running |-> FALSE, hook_calls |-> 0,
     writes |-> 0, traced |-> 0]

\* A handler after connection_made (lines 112-123).
MadeConn ==
    [exists |-> TRUE, open |-> TRUE, aborted |-> FALSE, lost |-> FALSE,
     task |-> "recv", must_cancel |-> FALSE, running |-> TRUE, hook_calls |-> 0,
     writes |-> 0, traced |-> 0]

\* No server has been created.
NoLifecycle ==
    /\ active_server = NoServer
    /\ srv = [s \in Servers |-> NewServer("tcp", FALSE)]
    /\ conn = [s \in Servers |-> [c \in Conns |-> NoConn]]
    /\ stops = <<>>

\* --------------------------------------------------- the transport layer
\* No call of the transport layer yet.  A call records the callbacks it
\* invoked (made, lost, data), whether a connection was established when it
\* began, whether it started a reconnect task, the call before it, and for
\* data_received the buffer it found, the bytes it was given and the count
\* cb_handle_data returned.
NoTransportCall ==
    [op |-> "none", made |-> 0, lost |-> 0, data |-> 0, established |-> FALSE,
     started |-> FALSE, prev |-> "none", task_before |-> FALSE,
     before |-> <<>>, data_in |-> <<>>, cut |-> 0]

\* The transport layer object after construction: no transport, an empty
\* recv_buffer, no reconnect task.
NewTransport ==
    [transport |-> FALSE, recv_buffer |-> <<>>, reconnect_task |-> FALSE,
     call |-> NoTransportCall]

\* ------------------------------------------------------------------ Init
\* A single-slave context, or a multi-slave context holding slaves 1 and 2.
Contexts ==
    {[single |-> TRUE, ids |-> <<>>],
     [single |-> FALSE, ids |-> <<1, 2>>]}

InitHandler ==
    /\ store = [s \in 0..2 |-> 0]
    /\ ctx_changes = 0
    /\ running = TRUE
    /\ receive_queue = <<>>
    /\ sent = <<>>
    /\ framer_buffer = <<>>
    /\ slaves = ContextSlaves(context)
    /\ task = "recv"
    /\ must_cancel = FALSE
    /\ transport_open = TRUE
    /\ lost = FALSE
    /\ active = TRUE
    /\ written = <<>>
    /\ nreq = 0
    /\ requests = <<>>
    /\ handled = <<>>
    /\ unechoed = <<>>
    /\ echo_ops = 0
    /\ echo_clean = TRUE
    /\ last = NoCall
    /\ tp = NewTransport

\* The handler after connection_made: running, registered, its task suspended
\* in _recv_.  TCP, TLS, Unix and UDP servers set handle_local_echo = False.
Init ==
    /\ server \in [broadcast_enable : BOOLEAN, ignore_missing_slaves : BOOLEAN,
                   response_manipulator : Manipulators, request_tracer : BOOLEAN,
                   handle_local_echo : {FALSE}]
    /\ transport_kind \in {"stream", "datagram"}
    \* ModbusUdpServer.__init__ sets request_tracer = None (line 697)
    /\ transport_kind = "datagram" => ~server.request_tracer
    /\ context \in Contexts
    /\ InitHandler
    /\ NoLifecycle

\* --------------------------------------------------------------- actions
\* data_received(data) on a stream transport.
DataReceived ==
    /\ transport_kind = "stream"
    /\ ~lost /\ transport_open
    /\ nreq < MaxReq
    /\ \E n \in 1..Min(MaxChunk, MaxReq - nreq) : \E shape \in [1..n -> FrameShapes] :
         LET data == Frames(n, shape)
             r == StripEcho(sent, data)
         IN  /\ sent' = r.sent
             /\ receive_queue' = IF r.put
                                 THEN Put(receive_queue, [data |-> r.data, addr |-> None])
                                 ELSE receive_queue
             /\ nreq' = nreq + n
             /\ requests' = requests \o data
    /\ UNCHANGED <<lifecycleVars, configVars, context, store, ctx_changes, framer_buffer,
                   handlerVars, written, handled, echoVars>>

\* datagram_received(data, addr).  The endpoint reads one datagram per pass of
\* the event loop and the wakeup of the handler task is scheduled before the
\* next read, so the queue of a datagram handler is empty when a datagram
\* arrives.
DatagramReceived ==
    /\ transport_kind = "datagram"
    /\ ~lost /\ transport_open
    /\ receive_queue = <<>>
    /\ nreq < MaxReq
    /\ \E n \in 1..Min(MaxChunk, MaxReq - nreq) : \E shape \in [1..n -> FrameShapes] :
       \E addr \in PeerAddrs :
         LET data == FramesFrom(n, shape, addr)
         IN  /\ receive_queue' = Put(receive_queue, [data |-> data, addr |-> addr])
             /\ nreq' = nreq + n
             /\ requests' = requests \o data
    /\ UNCHANGED <<lifecycleVars, configVars, context, store, ctx_changes, sent, framer_buffer,
                   handlerVars, written, handled, echoVars>>

\* The handler task is woken with data and runs until it waits again.
HandleData ==
    /\ task = "recv" /\ ~must_cancel
    /\ receive_queue # <<>>
    /\ LET r == RunLoop(StepState, receive_queue, slaves)
       IN  /\ store' = r.st.store
           /\ written' = r.st.written
           /\ sent' = r.st.sent
           /\ handled' = r.st.handled
           /\ framer_buffer' = r.st.buffer
           /\ transport_open' = r.st.open
           /\ receive_queue' = r.queue
           /\ slaves' = r.slaves
           /\ task' = IF r.st.raised THEN "failed" ELSE "recv"
    /\ UNCHANGED <<lifecycleVars, configVars, context, ctx_changes, running, must_cancel, lost,
                   active, nreq, requests, echoVars>>

\* handle(), lines 205-209: the task is woken by its cancellation; the while
\* loop ends because running is false.
HandleCancelled ==
    /\ task = "recv" /\ must_cancel
    /\ running' = FALSE
    /\ must_cancel' = FALSE
    /\ task' = "done"
    /\ UNCHANGED <<lifecycleVars, configVars, context, store, ctx_changes, receive_queue, sent,
                   framer_buffer, slaves, transport_open, lost, active, written,
                   historyVars, echoVars>>

\* connection_lost(call_exc), lines 131-157
ConnectionLost ==
    /\ ~lost
    /\ must_cancel' = (task = "recv")
    /\ active' = FALSE
    /\ running' = FALSE
    /\ lost' = TRUE
    /\ transport_open' = FALSE
    /\ UNCHANGED <<lifecycleVars, configVars, context, store, ctx_changes, receive_queue, sent,
                   framer_buffer, slaves, task, written, historyVars, echoVars>>

\* The application adds a slave context to, or deletes one from, a multi-slave
\* server context (ModbusServerContext.__setitem__ / __delitem__).
ContextChange ==
    /\ ~context.single
    /\ ctx_changes < MaxCtxChanges
    /\ ctx_changes' = ctx_changes + 1
    /\ \E s \in ContextIds :
         IF InSeq(s, context.ids)
         THEN /\ context' = [context EXCEPT !.ids = SelectSeq(@, LAMBDA x : x # s)]
              /\ store' = store
         ELSE /\ context' = [context EXCEPT !.ids = Append(@, s)]
              /\ store' = [store EXCEPT ![s] = 0]
    /\ UNCHANGED <<lifecycleVars, configVars, running, receive_queue, sent, framer_buffer, slaves,
                   task, must_cancel, transport_open, lost, active, written,
                   historyVars, echoVars>>

Next ==
    \/ DataReceived
    \/ DatagramReceived
    \/ HandleData
    \/ HandleCancelled
    \/ ConnectionLost
    \/ ContextChange

Spec == Init /\ [][Next]_vars

\* ------------------------------------------------- local echo (serial)
\* The bytes on the serial line.
Bytes == {1, 2}

\* A serial connection after connection_made; ModbusSerialServer takes
\* handle_local_echo from its arguments (line 786).
InitEcho ==
    /\ server \in [broadcast_enable : {FALSE}, ignore_missing_slaves : {FALSE},
                   response_manipulator : {"none"}, request_tracer : {FALSE},
                   handle_local_echo : BOOLEAN]
    /\ transport_kind = "stream"
    /\ context = [single |-> TRUE, ids |-> <<>>]
    /\ InitHandler
    /\ NoLifecycle

\* _send_(data): the handler writes a response packet.
EchoSend ==
    /\ echo_ops < MaxEchoOps
    /\ \E data \in SeqsOf(Bytes, 1, MaxSendLen) :
         /\ written' = Append(written, [packet |-> data, addr |-> None,
                                        open |-> transport_open])
         /\ sent' = SentAfterSend(sent, data)
         /\ unechoed' = unechoed \o data
    /\ echo_ops' = echo_ops + 1
    /\ UNCHANGED <<lifecycleVars, configVars, context, store, ctx_changes, receive_queue,
                   framer_buffer, handlerVars, historyVars, echo_clean, last>>

\* data_received(data): the line delivers the echo of the next k written bytes
\* followed by the bytes of the master.
EchoDataReceived ==
    /\ echo_ops < MaxEchoOps
    /\ \E k \in 0..Min(Len(unechoed), MaxDataLen) :
       \E real \in SeqsOf(Bytes, 0, MaxDataLen - k) :
         LET data == SubSeq(unechoed, 1, k) \o real
             r == StripEcho(sent, data)
         IN  /\ data # <<>>
             /\ sent' = r.sent
             /\ receive_queue' = IF r.put
                                 THEN Put(receive_queue, [data |-> r.data, addr |-> None])
                                 ELSE receive_queue
             /\ unechoed' = DropFirst(unechoed, k)
             /\ echo_clean' = (echo_clean /\ (real = <<>> \/ k = Len(unechoed)))
             /\ last' = [called |-> TRUE, sent_before |-> sent, data |-> data,
                         echo |-> k, sent_after |-> r.sent, put |-> r.put,
                         queued |-> r.data, qlen_before |-> Len(receive_queue)]
    /\ echo_ops' = echo_ops + 1
    /\ UNCHANGED <<lifecycleVars, configVars, context, store, ctx_changes, framer_buffer,
                   handlerVars, written, historyVars>>

NextEcho ==
    \/ EchoSend
    \/ EchoDataReceived

SpecEcho == InitEcho /\ [][NextEcho]_vars

\* ================================================ servers: the lifecycle
\* The variables of the connection specifications.
connectionVars ==
    <<server, transport_kind, context, store, ctx_changes, running, receive_queue,
      sent, framer_buffer, slaves, task, must_cancel, transport_open, lost, active,
      written, nreq, requests, handled, unechoed, echo_ops, echo_clean, last, tp>>

\* The keys of active_connections in insertion order (connections are
\* numbered in the order in which they are made).
RECURSIVE SortedSeq(_)
SortedSeq(S) ==
    IF S = {} THEN <<>>
    ELSE LET m == CHOOSE x \in S : \A y \in S : x <= y
         IN  <<m>> \o SortedSeq(S \ {m})

\* handler_task.cancel(): a task suspended in _recv_ is woken with
\* CancelledError; a finished task is left alone.
CancelTask(h) == IF h.task = "recv" THEN [h EXCEPT !.must_cancel = TRUE] ELSE h

\* Mutant of MayReconnect: a reconnect task is created whenever asked.
MayReconnectAlways(sv) == TRUE

\* _check_reconnect, line 888
MayReconnect(sv) == sv.auto_reconnect /\ sv.reconnecting_task = "none"

\* ModbusSerialServer._check_reconnect, lines 883-890
CheckReconnect(sv) ==
    IF MayReconnect(sv)
    THEN [sv EXCEPT !.reconnecting_task = "sleeping", !.pending = @ + 1]
    ELSE sv

\* ModbusSerialServer.on_connection_lost, lines 850-857
OnConnectionLost(sv) ==
    LET sv1 == IF sv.transport
               THEN [sv EXCEPT !.transport = FALSE, !.protocol = FALSE]
               ELSE sv
    IN  IF sv1.listener = "none" THEN CheckReconnect(sv1) ELSE sv1

\* Handlers c and d of a server have the same client_address, the key of
\* active_connections (lines 101-108): the peer name of a TCP connection is
\* the peer's (host, port); the peer name of every connection to a Unix
\* socket is the empty string.
SameKey(kind, c, d) == kind = "unix" \/ c = d

\* connection_made, line 123: active_connections[client_address] = self
Registered(sv, c) ==
    (sv.active \ {d \in Conns : SameKey(sv.kind, c, d)}) \cup {c}

\* connection_lost, lines 141-142: active_connections.pop(client_address)
Popped(sv, c) == sv.active \ {d \in Conns : SameKey(sv.kind, c, d)}

\* Mutant of RunningAfterLost: connection_lost leaves the running flag.
RunningKept(flag) == flag

\* connection_lost, line 151
RunningAfterLost(flag) == FALSE

\* ModbusServerRequestHandler.connection_lost, lines 138-151, on handler c of
\* the server of w; only ModbusSerialServer has on_connection_lost.
HandlerConnectionLost(w, c) ==
    LET h == [CancelTask(w.cn[c]) EXCEPT
                 !.lost = TRUE, !.open = FALSE,
                 !.running = RunningAfterLost(@),
                 !.hook_calls = IF w.sv.kind = "serial" THEN @ + 1 ELSE @]
        sv1 == [w.sv EXCEPT !.active = Popped(w.sv, c)]
    IN  [sv |-> IF sv1.kind = "serial" THEN OnConnectionLost(sv1) ELSE sv1,
         cn |-> [w.cn EXCEPT ![c] = h]]

\* Mutant of HandleAfterClose: server_close keeps the closed listener.
HandleKept == "closed"

\* server_close, lines 450 / 565: self.server = None
HandleAfterClose == "none"

\* server_close, lines 447-450 / 562-565: close() ends the listener's
\* serve_forever by cancelling it; wait_closed() returns at once.
CloseListener(sv) ==
    CASE sv.listener = "open" ->
            [sv EXCEPT !.listener = HandleAfterClose, !.fut_cancelled = TRUE,
                       !.closed_by_shutdown = TRUE]
      [] sv.listener = "closed" -> [sv EXCEPT !.listener = HandleAfterClose]
      [] OTHER -> sv

\* server_close of a Unix or TCP server after its handlers, lines 446-450 /
\* 561-565; async_stop then sleeps (line 957).
CloseTail(w) ==
    [sv |-> [CloseListener([w.sv EXCEPT !.active = {}])
                EXCEPT !.shutdown_returned = TRUE],
     cn |-> w.cn, pc |-> "sleep1", todo |-> <<>>]

\* Mutant of CancelReconnect: shutdown leaves the reconnect task alone.
CancelReconnectNot(reconnecting_task) == reconnecting_task

\* reconnecting_task.cancel(), line 878
CancelReconnect(reconnecting_task) == "cancelled"

\* ModbusSerialServer.shutdown after its handlers, lines 872-881: awaiting
\* the cancelled reconnect task raises CancelledError in shutdown.
SerialTail(w) ==
    LET sv1 == [w.sv EXCEPT !.active = {}]
    IN  IF sv1.reconnecting_task # "none"
        THEN [sv |-> [sv1 EXCEPT !.reconnecting_task = CancelReconnect(@),
                                 !.reconnect_at_cancel = sv1.reconnecting_task,
                                 !.pending = IF sv1.reconnecting_task = "sleeping"
                                                /\ CancelReconnect(sv1.reconnecting_task)
                                                       = "cancelled"
                                             THEN @ - 1 ELSE @],
              cn |-> w.cn, pc |-> "cancelled", todo |-> <<>>]
        ELSE [sv |-> [sv1 EXCEPT !.protocol = FALSE, !.shutdown_returned = TRUE],
              cn |-> w.cn, pc |-> "sleep1", todo |-> <<>>]

\* The loop over the handlers (TCP lines 555-560, serial lines 865-871) from
\* the top of an iteration to its sleep, or to the end of shutdown.
LoopStep(w, todo) ==
    IF todo = <<>>
    THEN IF w.sv.kind = "serial" THEN SerialTail(w) ELSE CloseTail(w)
    ELSE [sv |-> w.sv, cn |-> [w.cn EXCEPT ![Head(todo)].open = FALSE],
          pc |-> "conn_sleep", todo |-> todo]

\* After the sleep: handler_task.cancel() and await handler_task, which does
\* not suspend when the task has finished.
AfterSleep(w, todo) ==
    LET c == Head(todo)
        w1 == [w EXCEPT !.cn[c] = CancelTask(@)]
    IN  IF w1.cn[c].task = "recv"
        THEN [sv |-> w1.sv, cn |-> w1.cn, pc |-> "await_task", todo |-> todo]
        ELSE LoopStep(w1, Tail(todo))

\* ModbusUdpServer.server_close, lines 728-739: endpoint is the handler.
UdpClose(w) ==
    LET made == w.cn[1].exists
        h == IF made THEN [CancelTask(w.cn[1]) EXCEPT !.open = FALSE] ELSE w.cn[1]
    IN  [sv |-> [w.sv EXCEPT !.stop_serving = TRUE, !.listener = "none",
                             !.closed_by_shutdown = (@ \/ w.sv.listener = "open"),
                             !.shutdown_returned = TRUE],
         cn |-> [w.cn EXCEPT ![1] = h], pc |-> "sleep1", todo |-> <<>>]

\* ModbusSerialServer.shutdown, lines 861-863: the serial transport is the
\* transport of handler 1.
SerialAbort(w) ==
    IF w.sv.transport
    THEN [sv |-> [w.sv EXCEPT !.transport = FALSE],
          cn |-> [w.cn EXCEPT ![1].open = FALSE, ![1].aborted = TRUE]]
    ELSE w

\* shutdown() from its call to its first suspension or its end.
ShutdownBegin(w) ==
    LET first == ~w.sv.shutdown_requested
        sv0 == [w.sv EXCEPT !.shutdown_requested = TRUE,
                            !.at_shutdown = IF first THEN w.sv.active ELSE @,
                            !.attempts_at_shutdown = IF first THEN w.sv.attempts ELSE @]
        w0 == [sv |-> sv0, cn |-> w.cn]
    IN  CASE sv0.kind = "unix" ->
                CloseTail([w0 EXCEPT !.cn = [c \in Conns |->
                              IF c \in sv0.active THEN CancelTask(w.cn[c]) ELSE w.cn[c]]])
          [] sv0.kind = "tcp" -> LoopStep(w0, SortedSeq(sv0.active))
          [] sv0.kind = "udp" -> UdpClose(w0)
          [] sv0.kind = "serial" -> LoopStep(SerialAbort(w0), SortedSeq(sv0.active))

\* The server s with its handlers.
World(s) == [sv |-> srv[s], cn |-> conn[s]]

\* Mutant of RegisterCustom: the custom functions are not registered.
RegisterCustomNot(registers) == registers

\* _serverList.run, lines 945-946: every function of custom_functions is
\* registered in server.decoder.
RegisterCustom(registers) == registers + 1

\* _serverList.run, line 947: the server is registered; nothing is looked at.
Register(s) ==
    /\ active_server' = s
    /\ stops' = [k \in DOMAIN stops |-> [stops[k] EXCEPT !.superseded = TRUE]]

\* ModbusSerialServer.serve_forever, line 918, on entry
SerialServes(sv) == sv.listener # "none" \/ sv.transport \/ sv.protocol

InitServers ==
    /\ server = [broadcast_enable |-> FALSE, ignore_missing_slaves |-> FALSE,
                 response_manipulator |-> "none", request_tracer |-> FALSE,
                 handle_local_echo |-> FALSE]
    /\ transport_kind = "stream"
    /\ context = [single |-> TRUE, ids |-> <<>>]
    /\ InitHandler
    /\ active_server = NoServer
    /\ srv \in [Servers -> {NewServer(k, a) : k \in ServerKinds, a \in BOOLEAN}]
    /\ \A s \in Servers : srv[s].auto_reconnect => srv[s].kind = "serial"
    /\ conn = [s \in Servers |-> [c \in Conns |-> NoConn]]
    /\ stops = <<>>

\* Start*Server is called for server s: StartAsyncSerialServer awaits
\* server.start() first (line 1099), the others go to _serverList.run and
\* serve_forever, which awaits the creation of the listener.
StartServer(s) ==
    /\ srv[s].pc = "new"
    /\ \A t \in Servers : t < s => srv[t].pc # "new"
    /\ IF srv[s].kind = "serial"
       THEN /\ srv' = [srv EXCEPT ![s].pc = "connecting", ![s].found = active_server]
            /\ UNCHANGED <<active_server, stops>>
       ELSE /\ srv' = [srv EXCEPT ![s].pc = "creating", ![s].found = active_server,
                                  ![s].registers = RegisterCustom(@)]
            /\ Register(s)
    /\ UNCHANGED <<conn, connectionVars>>

\* _connect, lines 831-848, called by start(): create_serial_connection
\* returns or raises; then _serverList.run and serve_forever (lines 892-919).
SerialOpened(s) ==
    /\ srv[s].pc = "connecting"
    /\ \E outcome \in {"ok", "SerialException", "error"} :
         LET sv0 == [srv[s] EXCEPT !.attempts = @ + 1,
                                   !.open_failed = IF outcome = "ok" THEN "none"
                                                   ELSE outcome]
             sv1 == CASE outcome = "ok" ->
                            [sv0 EXCEPT !.transport = TRUE, !.protocol = TRUE,
                                        !.active = @ \cup {1}, !.began = TRUE]
                      [] outcome = "SerialException" ->
                            [CheckReconnect(sv0) EXCEPT !.began = sv0.auto_reconnect]
                      [] OTHER -> sv0
         IN  IF outcome = "SerialException" /\ ~sv0.auto_reconnect
             THEN /\ srv' = [srv EXCEPT ![s] = [sv1 EXCEPT !.pc = "raised"]]
                  /\ UNCHANGED <<active_server, stops, conn>>
             ELSE /\ srv' = [srv EXCEPT ![s] =
                        [sv1 EXCEPT !.pc = IF SerialServes(sv1) THEN "serving"
                                           ELSE "returned",
                                    !.registers = RegisterCustom(@)]]
                  /\ conn' = IF outcome = "ok"
                             THEN [conn EXCEPT ![s][1] = MadeConn]
                             ELSE conn
                  /\ Register(s)
    /\ UNCHANGED connectionVars

\* serve_forever of a Unix, TCP or UDP server after the creation of the
\* listener returned or raised (lines 418-434, 527-535, 704-722).
ListenerCreated(s) ==
    /\ srv[s].pc = "creating"
    /\ \E ok \in BOOLEAN :
         LET sv == srv[s]
             up == [sv EXCEPT !.listener = "open", !.serving = TRUE, !.began = TRUE]
         IN  CASE sv.kind = "unix" ->
                    /\ srv' = [srv EXCEPT ![s] =
                          IF ok THEN [up EXCEPT !.pc = "serving"]
                          ELSE [sv EXCEPT !.create_failed = TRUE,
                                          !.serving_done = "true", !.pc = "returned"]]
                    /\ conn' = conn
               [] sv.kind = "tcp" ->
                    /\ srv' = [srv EXCEPT ![s] =
                          IF ok THEN [up EXCEPT !.pc = "serving"]
                          ELSE [sv EXCEPT !.create_failed = TRUE, !.pc = "raised"]]
                    /\ conn' = conn
               [] OTHER ->
                    /\ srv' = [srv EXCEPT ![s] =
                          IF ok
                          THEN IF sv.stop_serving
                               THEN [up EXCEPT !.active = @ \cup {1},
                                               !.serving_done = "true", !.pc = "returned"]
                               ELSE [up EXCEPT !.active = @ \cup {1}, !.pc = "serving"]
                          ELSE [sv EXCEPT !.create_failed = TRUE,
                                          !.serving_done = "false", !.pc = "raised"]]
                    /\ conn' = IF ok THEN [conn EXCEPT ![s][1] = MadeConn] ELSE conn
    /\ UNCHANGED <<active_server, stops, connectionVars>>

\* serve_forever ends: the listener's serve_forever was cancelled by close()
\* (Unix lines 425-427, TCP 536-538; _serverList.run suppresses the
\* CancelledError, line 948), stop_serving was set (UDP 717-722), or the serial
\* server finds server, transport and protocol empty (line 918).
ServeForeverEnds(s) ==
    /\ srv[s].pc = "serving"
    /\ CASE srv[s].kind = "unix" ->
              /\ srv[s].fut_cancelled
              /\ srv' = [srv EXCEPT ![s].serving_done = "true", ![s].pc = "returned"]
         [] srv[s].kind = "tcp" ->
              /\ srv[s].fut_cancelled
              /\ srv' = [srv EXCEPT ![s].serving_done = "false", ![s].pc = "returned"]
         [] srv[s].kind = "udp" ->
              /\ srv[s].stop_serving
              /\ srv' = [srv EXCEPT ![s].serving_done = "true", ![s].pc = "returned"]
         [] OTHER ->
              /\ ~SerialServes(srv[s])
              /\ srv' = [srv EXCEPT ![s].pc = "returned"]
    /\ UNCHANGED <<active_server, stops, conn, connectionVars>>

\* A client connects to the listener of a Unix or TCP server: connection_made.
ClientConnects(s, c) ==
    /\ srv[s].kind \in {"unix", "tcp"}
    /\ srv[s].listener = "open"
    /\ ~conn[s][c].exists
    /\ \A d \in Conns : d < c => conn[s][d].exists
    /\ conn' = [conn EXCEPT ![s][c] = MadeConn]
    /\ srv' = [srv EXCEPT ![s].active = Registered(srv[s], c)]
    /\ UNCHANGED <<active_server, stops, connectionVars>>

\* connection_lost of handler c: the peer or the line went away, or the
\* transport was closed; the endpoint of a UDP server is lost only when closed.
HandlerLost(s, c) ==
    /\ conn[s][c].exists /\ ~conn[s][c].lost
    /\ srv[s].kind = "udp" => ~conn[s][c].open
    /\ LET r == HandlerConnectionLost(World(s), c)
       IN  /\ srv' = [srv EXCEPT ![s] = r.sv]
           /\ conn' = [conn EXCEPT ![s] = r.cn]
    /\ UNCHANGED <<active_server, stops, connectionVars>>

\* handle(), lines 205-209, of handler c: the cancelled task ends.
HandlerCancelled(s, c) ==
    /\ conn[s][c].task = "recv" /\ conn[s][c].must_cancel
    /\ conn' = [conn EXCEPT ![s][c].task = "done", ![s][c].must_cancel = FALSE,
                            ![s][c].running = FALSE]
    /\ UNCHANGED <<active_server, stops, srv, connectionVars>>

\* _delayed_connect, lines 818-821, after its sleep: _connect finds
\* reconnecting_task set (it is the running task), cancels it and awaits it
\* (lines 825-827), which ends the task before line 832 is reached.
DelayedConnect(s) ==
    /\ srv[s].reconnecting_task = "sleeping"
    /\ srv' = [srv EXCEPT ![s].reconnecting_task = "cancelled", ![s].pending = @ - 1]
    /\ UNCHANGED <<active_server, stops, conn, connectionVars>>

\* _serverList.async_stop line 954 and _serverList.stop line 963
StopRaises(slot) == slot = NoServer

\* Mutant of SlotAfterStop: async_stop leaves the server registered.
SlotKept(slot) == slot

\* _serverList.async_stop, line 958
SlotAfterStop(slot) == NoServer

\* A call of ServerAsyncStop (via = "async") or ServerStop (via = "sync",
\* which hands async_stop to the loop of the registered server): RuntimeError
\* without an active server, else shutdown() of the registered server up to
\* its first suspension.  The record keeps, as history, the slot and the
\* position of the registered server at the call, and whether an earlier call
\* had completed with no server started since.
StopCall(via) ==
    /\ Len(stops) < MaxStops
    /\ LET rec == [via |-> via, target |-> active_server, pc |-> "RuntimeError",
                   todo |-> <<>>, slot |-> active_server,
                   target_pc |-> IF active_server = NoServer THEN "none"
                                 ELSE srv[active_server].pc,
                   after_stop |-> \E j \in 1..Len(stops) :
                                     stops[j].pc = "done" /\ ~stops[j].superseded,
                   superseded |-> FALSE]
       IN  IF StopRaises(active_server)
           THEN /\ stops' = Append(stops, rec)
                /\ UNCHANGED <<srv, conn>>
           ELSE LET s == active_server
                    r == ShutdownBegin(World(s))
                IN  /\ stops' = Append(stops, [rec EXCEPT !.pc = r.pc, !.todo = r.todo])
                    /\ srv' = [srv EXCEPT ![s] = r.sv]
                    /\ conn' = [conn EXCEPT ![s] = r.cn]
    /\ UNCHANGED <<active_server, connectionVars>>

\* ServerAsyncStop, lines 1123-1125
ServerAsyncStop == StopCall("async")

\* ServerStop, lines 1128-1130
ServerStop == StopCall("sync")

\* shutdown of stop call k goes on after asyncio.sleep(0.1) (lines 558-560,
\* 869-871).  The connection_lost that abort() scheduled has run by then.
StopAfterConnSleep(k) ==
    /\ stops[k].pc = "conn_sleep"
    /\ LET s == stops[k].target
           c == Head(stops[k].todo)
       IN  /\ conn[s][c].aborted => conn[s][c].lost
           /\ LET r == AfterSleep(World(s), stops[k].todo)
              IN  /\ stops' = [stops EXCEPT ![k].pc = r.pc, ![k].todo = r.todo]
                  /\ srv' = [srv EXCEPT ![s] = r.sv]
                  /\ conn' = [conn EXCEPT ![s] = r.cn]
    /\ UNCHANGED <<active_server, connectionVars>>

\* await v_item.handler_task returns (lines 560, 871): the task has ended.
StopTaskAwaited(k) ==
    /\ stops[k].pc = "await_task"
    /\ LET s == stops[k].target
           c == Head(stops[k].todo)
       IN  /\ conn[s][c].task = "done"
           /\ LET r == LoopStep(World(s), Tail(stops[k].todo))
              IN  /\ stops' = [stops EXCEPT ![k].pc = r.pc, ![k].todo = r.todo]
                  /\ srv' = [srv EXCEPT ![s] = r.sv]
                  /\ conn' = [conn EXCEPT ![s] = r.cn]
    /\ UNCHANGED <<active_server, connectionVars>>

\* async_stop after asyncio.sleep(1), line 958
StopFinish(k) ==
    /\ stops[k].pc = "sleep1"
    /\ active_server' = SlotAfterStop(active_server)
    /\ stops' = [stops EXCEPT ![k].pc = "done"]
    /\ UNCHANGED <<srv, conn, connectionVars>>

NextServers ==
    \/ \E s \in Servers : StartServer(s)
    \/ \E s \in Servers : SerialOpened(s)
    \/ \E s \in Servers : ListenerCreated(s)
    \/ \E s \in Servers : ServeForeverEnds(s)
    \/ \E s \in Servers, c \in 1..MaxConnsEach : ClientConnects(s, c)
    \/ \E s \in Servers, c \in Conns : HandlerLost(s, c)
    \/ \E s \in Servers, c \in Conns : HandlerCancelled(s, c)
    \/ \E s \in Servers : DelayedConnect(s)
    \/ ServerAsyncStop
    \/ ServerStop
    \/ \E k \in 1..Len(stops) : StopAfterConnSleep(k)
    \/ \E k \in 1..Len(stops) : StopTaskAwaited(k)
    \/ \E k \in 1..Len(stops) : StopFinish(k)

SpecServers == InitServers /\ [][NextServers]_vars

\* --------------------------------- one server with several connections
\* The server that is started.
OneServer == {s \in Servers : \A t \in Servers : s <= t}

\* One server of any type is created, with or without a request_tracer; the
\* other server objects are not used.
InitConns ==
    /\ server = [broadcast_enable |-> FALSE, ignore_missing_slaves |-> FALSE,
                 response_manipulator |-> "none", request_tracer |-> FALSE,
                 handle_local_echo |-> FALSE]
    /\ transport_kind = "stream"
    /\ context = [single |-> TRUE, ids |-> <<>>]
    /\ InitHandler
    /\ active_server = NoServer
    /\ \E k \in ServerKinds, a, tracer \in BOOLEAN :
          /\ a => k = "serial"
          /\ srv = [s \in Servers |->
                      IF s \in OneServer THEN Traced(NewServer(k, a), tracer)
                      ELSE NewServer("tcp", FALSE)]
    /\ conn = [s \in Servers |-> [c \in Conns |-> NoConn]]
    /\ stops = <<>>

\* Mutant of Runs: the task goes on although it was cancelled.
RunsCancelled(h) == h.task = "recv"

\* The task of handler h, suspended in _recv_ (line 183), goes on with data:
\* a cancelled task is woken with CancelledError instead.
Runs(h) == h.task = "recv" /\ ~h.must_cancel

\* handle(), lines 210-221, of handler c: an exception raised while a chunk
\* is processed is caught and the handler closes its transport.
HandlerForcesClose(s, c) ==
    /\ Runs(conn[s][c])
    /\ conn[s][c].open /\ ~conn[s][c].lost
    /\ conn' = [conn EXCEPT ![s][c].open = FALSE]
    /\ UNCHANGED <<active_server, stops, srv, connectionVars>>

\* handle() and execute() of handler c: a chunk is taken from the queue, its
\* request is dispatched: the request_tracer is called when the server has
\* one (lines 236-237), the request is executed and the response is written
\* (line 269).
HandlerAnswers(s, c) ==
    /\ Runs(conn[s][c])
    /\ conn[s][c].writes < MaxWrites
    /\ conn' = [conn EXCEPT ![s][c].writes = @ + 1,
                            ![s][c].traced = IF srv[s].request_tracer
                                             THEN @ + 1 ELSE @]
    /\ UNCHANGED <<active_server, stops, srv, connectionVars>>

NextConns ==
    \/ \E s \in OneServer : StartServer(s)
    \/ \E s \in OneServer : SerialOpened(s)
    \/ \E s \in OneServer : ListenerCreated(s)
    \/ \E s \in OneServer : ServeForeverEnds(s)
    \/ \E s \in OneServer, c \in Conns : ClientConnects(s, c)
    \/ \E s \in OneServer, c \in Conns : HandlerLost(s, c)
    \/ \E s \in OneServer, c \in Conns : HandlerCancelled(s, c)
    \/ \E s \in OneServer, c \in Conns : HandlerForcesClose(s, c)
    \/ \E s \in OneServer, c \in Conns : HandlerAnswers(s, c)
    \/ \E s \in OneServer : DelayedConnect(s)
    \/ ServerAsyncStop
    \/ \E k \in 1..Len(stops) : StopAfterConnSleep(k)
    \/ \E k \in 1..Len(stops) : StopTaskAwaited(k)
    \/ \E k \in 1..Len(stops) : StopFinish(k)

SpecConns == InitConns /\ [][NextConns]_vars

\* The event loop runs what is ready: a cancelled handler task takes its
\* step, and connection_lost of a transport that was closed or aborted on
\* this side, which close() and abort() schedule with call_soon, is called.
SpecConnsFair ==
    /\ SpecConns
    /\ \A s \in OneServer, c \in Conns :
           /\ WF_vars(HandlerCancelled(s, c))
           /\ WF_vars(HandlerLost(s, c) /\ ~conn[s][c].open)

\* --------------------------------------- serve_forever called once more
\* Mutant of Running: the object never counts as running.
RunningNever(sv) == FALSE

\* serve_forever, lines 416 / 526 / 702: self.server (self.protocol of a UDP
\* server) is not None.
Running(sv) == sv.listener # "none"

\* The application calls serve_forever on server object s once more, while
\* it serves or after its first serve_forever has ended: RuntimeError when
\* the object is running (lines 430-433, 541-544, 718-721), else the creation
\* of a listener is awaited.
ServeForeverAgain(s) ==
    /\ srv[s].kind # "serial"
    /\ srv[s].again = "none"
    /\ \/ srv[s].pc = "serving" /\ srv[s].listener = "open"
       \/ srv[s].pc \in {"returned", "raised"}
    /\ srv' = [srv EXCEPT ![s].again = IF Running(srv[s]) THEN "RuntimeError"
                                       ELSE "creating",
                          ![s].again_after_shutdown = (srv[s].shutdown_returned
                                                         /\ srv[s].listener = "none")]
    /\ UNCHANGED <<active_server, stops, conn, connectionVars>>

\* Future.set_result on a future that is done raises InvalidStateError.
\* serving_done.set_result(value) in the second call:
DoneAgain(sv, value, then) ==
    IF sv.serving_done = "pending"
    THEN [sv EXCEPT !.serving_done = value, !.again = then]
    ELSE [sv EXCEPT !.again = "InvalidStateError"]

\* The second serve_forever after the creation of the listener returned or
\* raised.  Unix (lines 417-434): serving.set_result is inside the try, its
\* InvalidStateError is logged and line 434 is reached.  TCP (527-532) and
\* UDP (703-716): serving.set_result is outside the try.
ListenerCreatedAgain(s) ==
    /\ srv[s].again = "creating"
    /\ \E ok \in BOOLEAN :
         LET sv == srv[s]
             up == [sv EXCEPT !.listener = "open"]
         IN  CASE sv.kind = "unix" ->
                    /\ srv' = [srv EXCEPT ![s] =
                          IF ok
                          THEN IF sv.serving THEN DoneAgain(up, "true", "returned")
                               ELSE [up EXCEPT !.serving = TRUE, !.again = "serving"]
                          ELSE DoneAgain(sv, "true", "returned")]
                    /\ conn' = conn
               [] sv.kind = "tcp" ->
                    /\ srv' = [srv EXCEPT ![s] =
                          IF ok
                          THEN IF sv.serving THEN [up EXCEPT !.again = "InvalidStateError"]
                               ELSE [up EXCEPT !.serving = TRUE, !.again = "serving"]
                          ELSE [sv EXCEPT !.again = "raised"]]
                    /\ conn' = conn
               [] OTHER ->
                    /\ srv' = [srv EXCEPT ![s] =
                          IF ok
                          THEN LET made == [up EXCEPT !.active = @ \cup {1}]
                               IN  IF sv.serving
                                   THEN [made EXCEPT !.again = "InvalidStateError"]
                                   ELSE IF sv.stop_serving
                                   THEN DoneAgain([made EXCEPT !.serving = TRUE],
                                                  "true", "returned")
                                   ELSE [made EXCEPT !.serving = TRUE, !.again = "serving"]
                          ELSE DoneAgain(sv, "false", "raised")]
                    /\ conn' = IF ok THEN [conn EXCEPT ![s][1] = MadeConn] ELSE conn
    /\ UNCHANGED <<active_server, stops, connectionVars>>

\* The second serve_forever ends: close() cancelled the listener's
\* serve_forever (Unix lines 425-427, TCP 536-538) or stop_serving was set
\* (UDP 717-722).
ServeForeverAgainEnds(s) ==
    /\ srv[s].again = "serving"
    /\ CASE srv[s].kind = "unix" ->
              /\ srv[s].listener = "none"
              /\ srv' = [srv EXCEPT ![s] = DoneAgain(@, "true", "cancelled")]
         [] srv[s].kind = "tcp" ->
              /\ srv[s].listener = "none"
              /\ srv' = [srv EXCEPT ![s] = DoneAgain(@, "false", "cancelled")]
         [] OTHER ->
              /\ srv[s].stop_serving
              /\ srv' = [srv EXCEPT ![s] = DoneAgain(@, "true", "returned")]
    /\ UNCHANGED <<active_server, stops, conn, connectionVars>>

NextAgain ==
    \/ NextConns
    \/ \E s \in OneServer : ServeForeverAgain(s)
    \/ \E s \in OneServer : ListenerCreatedAgain(s)
    \/ \E s \in OneServer : ServeForeverAgainEnds(s)

SpecAgain == InitConns /\ [][NextAgain]_vars

\* --------------------------------------------------- the transport layer
\* The call record of operation op made on transport object t.
TransportCall(t, op) ==
    [NoTransportCall EXCEPT !.op = op, !.established = t.transport,
                            !.prev = t.call.op, !.task_before = t.reconnect_task]

\* Mutant of CloseFields: close() keeps the reconnect task and the buffer.
CloseKeeps(t) == [t EXCEPT !.transport = FALSE]

\* close(): the transport is aborted and closed, recv_buffer is emptied and
\* the reconnect task is cancelled and forgotten.
CloseFields(t) ==
    [t EXCEPT !.transport = FALSE, !.recv_buffer = <<>>, !.reconnect_task = FALSE]

\* Mutant of Consumed: the consumed bytes are taken from the end.
ConsumedFromEnd(buffer, cut) == SubSeq(buffer, 1, Len(buffer) - cut)

\* data_received: recv_buffer[cut:]
Consumed(buffer, cut) == SubSeq(buffer, cut + 1, Len(buffer))

\* A quiet stream handler next to which the transport layer is exercised.
InitTransport ==
    /\ server = [broadcast_enable |-> FALSE, ignore_missing_slaves |-> FALSE,
                 response_manipulator |-> "none", request_tracer |-> FALSE,
                 handle_local_echo |-> FALSE]
    /\ transport_kind = "stream"
    /\ context = [single |-> TRUE, ids |-> <<>>]
    /\ InitHandler
    /\ NoLifecycle

\* Everything but the transport layer object.
notTransportVars ==
    <<server, transport_kind, context, store, ctx_changes, running, receive_queue,
      sent, framer_buffer, slaves, task, must_cancel, transport_open, lost, active,
      written, nreq, requests, handled, unechoed, echo_ops, echo_clean, last,
      lifecycleVars>>

\* connection_made(transport): the transport is kept and cb_connection_made
\* is called.
TransportConnectionMade ==
    /\ ~tp.transport
    /\ tp' = [tp EXCEPT !.transport = TRUE,
                        !.call = [TransportCall(tp, "connection_made") EXCEPT !.made = 1]]
    /\ UNCHANGED notTransportVars

\* connection_lost(reason): cb_connection_lost is called; when a transport
\* was held it is closed and the reconnect task is started.
TransportConnectionLost ==
    /\ tp' = [(IF tp.transport
                THEN [CloseFields(tp) EXCEPT !.reconnect_task = TRUE]
                ELSE tp)
              EXCEPT !.call = [TransportCall(tp, "connection_lost")
                               EXCEPT !.lost = 1, !.started = tp.transport]]
    /\ UNCHANGED notTransportVars

\* close()
TransportClose ==
    /\ tp' = [CloseFields(tp) EXCEPT !.call = TransportCall(tp, "close")]
    /\ UNCHANGED notTransportVars

\* data_received(data): the bytes join recv_buffer, cb_handle_data is called
\* with the buffer and returns the number of bytes it consumed.
TransportDataReceived ==
    /\ tp.transport
    /\ \E data \in SeqsOf(Bytes, 1, MaxDataLen) :
         /\ Len(tp.recv_buffer) + Len(data) <= MaxRecvLen
         /\ \E cut \in 0..(Len(tp.recv_buffer) + Len(data)) :
              tp' = [tp EXCEPT
                       !.recv_buffer = Consumed(tp.recv_buffer \o data, cut),
                       !.call = [TransportCall(tp, "data_received")
                                 EXCEPT !.data = 1, !.before = tp.recv_buffer,
                                        !.data_in = data, !.cut = cut]]
    /\ UNCHANGED notTransportVars

NextTransport ==
    \/ TransportConnectionMade
    \/ TransportConnectionLost
    \/ TransportClose
    \/ TransportDataReceived

SpecTransport == InitTransport /\ [][NextTransport]_vars

\* ================================================================= claims
\* The write calls made for request seq.
WrittenFor(seq) == {i \in 1..Len(written) : written[i].packet.req = seq}

\* The request with arrival number seq is addressed to the broadcast address.
BroadcastRequest(seq) == server.broadcast_enable /\ requests[seq].slave_id = 0

\* C1: with broadcast_enable, a dispatched request with slave_id 0 causes no
\* write on the transport, whatever its executions return or raise and with
\* or without a response_manipulator.
C1_BroadcastSilent ==
    /\ \A i \in 1..Len(written) : ~BroadcastRequest(written[i].packet.req)
    /\ \A i \in 1..Len(handled) : handled[i].broadcast => handled[i].nwritten = 0

\* C1 witness: a broadcast was executed on both slave contexts and another on
\* a context where it raised, on a server with a response_manipulator.
C1_Witness ==
    /\ server.response_manipulator # "none"
    /\ \E i, j \in 1..Len(handled) :
         /\ handled[i].broadcast /\ handled[i].changed /\ Len(handled[i].executed) = 2
         /\ handled[j].broadcast /\ handled[j].exc = "other"

\* C2 (as claimed): a broadcast request is executed once on every slave
\* context listed by context.slaves(), also when one execution raises.
C2_BroadcastExecutesAll ==
    \A i \in 1..Len(handled) :
        handled[i].broadcast => handled[i].executed = handled[i].ctx_slaves

\* C3: responses leave in the order in which their requests arrived.
C3_Fifo ==
    \A i, j \in 1..Len(written) :
        written[i].packet.req < written[j].packet.req => i < j

\* C3 witness: two requests were answered.
C3_Witness ==
    /\ Len(written) = 2
    /\ written[1].packet.req # written[2].packet.req

\* C4: without a response_manipulator every response written carries the
\* transaction id and the slave id of the request it answers.
C4_IdsCopied ==
    server.response_manipulator = "none" =>
        \A i \in 1..Len(written) :
            LET p == written[i].packet
            IN  /\ p.transaction_id = requests[p.req].transaction_id
                /\ p.slave_id = requests[p.req].slave_id

\* C4 witness: an exception response and a normal response were written for
\* requests to a slave id other than 0.
C4_Witness ==
    /\ server.response_manipulator = "none"
    /\ \E i, j \in 1..Len(written) :
         /\ written[i].packet.kind = "exception" /\ written[i].packet.slave_id # 0
         /\ written[j].packet.kind = "normal" /\ written[j].packet.slave_id # 0

\* The multi-slave context did not hold the slave id of the request of
\* handled[i] when the request was handled.
MissingSlave(i) == ~context.single /\ ~handled[i].known

\* C5 (as claimed): with ignore_missing_slaves, a request for a slave id that
\* is not in the multi-slave context writes nothing and changes no context.
C5_Original ==
    server.ignore_missing_slaves =>
        \A i \in 1..Len(handled) :
            MissingSlave(i) => handled[i].nwritten = 0 /\ ~handled[i].changed

\* C5 (amended): with ignore_missing_slaves, a request for a slave id that is
\* not in the multi-slave context and is not the broadcast address (0 with
\* broadcast_enable) writes nothing and changes no context.
C5_MissingIgnored ==
    server.ignore_missing_slaves =>
        \A i \in 1..Len(handled) :
            MissingSlave(i) /\ ~BroadcastRequest(handled[i].seq) =>
                /\ handled[i].nwritten = 0
                /\ ~handled[i].changed
                /\ WrittenFor(handled[i].seq) = {}

\* C5 witness: the lookup of a dispatched request raised NoSuchSlaveException
\* on a server with ignore_missing_slaves.
C5_Witness ==
    /\ server.ignore_missing_slaves
    /\ \E i \in 1..Len(handled) :
         MissingSlave(i) /\ handled[i].accepted /\ handled[i].exc = "nss"

\* C6 (as claimed): without ignore_missing_slaves, a received request for a
\* slave id other than 0 that the multi-slave context does not hold is answered
\* with exactly one exception response with code 11 carrying the request's
\* transaction id and slave id (no response_manipulator, nothing raises while
\* the request is decoded and answered).
C6_MissingAnswered ==
    ~server.ignore_missing_slaves /\ server.response_manipulator = "none" =>
        \A i \in 1..Len(handled) :
            LET request == requests[handled[i].seq]
            IN  MissingSlave(i) /\ request.slave_id # 0 /\ request.fault = None =>
                    /\ Cardinality(WrittenFor(request.seq)) = 1
                    /\ \A w \in WrittenFor(request.seq) :
                         /\ written[w].packet.kind = "exception"
                         /\ written[w].packet.code = GatewayNoResponse
                         /\ written[w].packet.transaction_id = request.transaction_id
                         /\ written[w].packet.slave_id = request.slave_id

\* The execution of the non-broadcast request of handled[i] raised an error
\* other than NoSuchSlaveException.
ExecutionFailed(i) ==
    handled[i].accepted /\ ~handled[i].broadcast /\ handled[i].exc = "other"

\* The request of handled[i] was answered with exactly one exception response
\* with code 4 and execute() returned to the framer.
AnsweredSlaveFailure(i) ==
    /\ Cardinality(WrittenFor(handled[i].seq)) = 1
    /\ \A w \in WrittenFor(handled[i].seq) :
         /\ written[w].packet.kind = "exception"
         /\ written[w].packet.code = SlaveFailure
    /\ ~handled[i].raised

C8_TaskNeverFails ==
    /\ task # "failed"
    /\ task = "done" => ~running

\* C8 witness: an error was raised while a chunk was processed, and the task
\* has ended.
C8_Witness ==
    /\ task = "done"
    /\ \E i \in 1..Len(handled) : handled[i].raised

\* C9: with handle_local_echo and a transmitted response in _sent, a chunk
\* equal to _sent queues nothing, a chunk made of _sent followed by a new
\* request queues exactly the request, and _sent is empty afterwards.
C9_EchoStripped ==
    (/\ server.handle_local_echo
     /\ last.called
     /\ last.sent_before # <<>>
     /\ StartsWith(last.data, last.sent_before)) =>
        /\ last.sent_after = <<>>
        /\ IF last.data = last.sent_before
           THEN ~last.put /\ Len(receive_queue) = last.qlen_before
           ELSE /\ last.put
                /\ Len(receive_queue) = last.qlen_before + 1
                /\ receive_queue[Len(receive_queue)].data
                       = DropFirst(last.data, Len(last.sent_before))

\* C9 witness: the echo of the response in _sent arrived followed by a request
\* that itself contains the bytes of the response.
C9_Witness ==
    /\ server.handle_local_echo
    /\ last.called
    /\ last.sent_before # <<>>
    /\ StartsWith(last.data, last.sent_before)
    /\ last.data # last.sent_before
    /\ Contains(DropFirst(last.data, Len(last.sent_before)), last.sent_before)

\* C10 (as claimed): with handle_local_echo, as long as the line delivers the
\* echo before the bytes of the master, _sent holds all bytes written and not
\* yet echoed, and nothing but the bytes of the master is queued.
C10_EchoCached ==
    server.handle_local_echo /\ echo_clean =>
        /\ sent = unechoed
        /\ last.called =>
             /\ last.put = (Len(last.data) > last.echo)
             /\ last.put => last.queued = DropFirst(last.data, last.echo)

\* ------------------------------------------------------ lifecycle claims
\* Server s was started while server srv[s].found was registered, and that
\* server has not been asked to shut down since.
StartedOverActive(s) ==
    /\ srv[s].pc # "new"
    /\ srv[s].found # NoServer
    /\ ~srv[srv[s].found].shutdown_requested

\* C11 (as claimed): a Start*Server call made while another server is
\* registered and not stopped ends with an error (it is at most still opening
\* its port before that) and the other server stays registered.
C11_SecondStartRejected ==
    \A s \in Servers :
        StartedOverActive(s) =>
            /\ srv[s].pc \in {"connecting", "raised"}
            /\ active_server = srv[s].found

\* Stop call k found a server registered whose Start*Server was serving.
StopOfServing(k) == stops[k].slot # NoServer /\ stops[k].target_pc = "serving"

\* C12 (as claimed): a stop called while the registered server is serving
\* does not raise; once it has completed, and until another server is
\* started, the slot is empty; and the Start*Server coroutine of the server
\* does not end with an exception.
C12_StopShutsDown ==
    \A k \in 1..Len(stops) :
        StopOfServing(k) =>
            /\ stops[k].pc # "cancelled"
            /\ stops[k].pc = "done" /\ ~stops[k].superseded => active_server = NoServer
            /\ srv[stops[k].target].pc \in {"serving", "returned"}

\* The step is a call of ServerAsyncStop or ServerStop.
StopCalled == Len(stops') = Len(stops) + 1

\* C13: a stop called while no server is registered raises RuntimeError and
\* changes no server, no handler and not the slot; a stop called after a stop
\* has completed, with no server started since, raises RuntimeError.
C13_StopWithoutServer ==
    /\ [](\A k \in 1..Len(stops) :
            stops[k].slot = NoServer \/ stops[k].after_stop =>
                stops[k].pc = "RuntimeError")
    /\ [][StopCalled /\ active_server = NoServer =>
            /\ stops'[Len(stops')].pc = "RuntimeError"
            /\ UNCHANGED <<srv, conn, active_server>>]_vars

\* C13 witness: an asynchronous stop has shut a serving server down and
\* completed, and the ServerStop called after it raised RuntimeError.
C13_Witness ==
    \E j, k \in 1..Len(stops) :
        /\ j < k
        /\ StopOfServing(j) /\ stops[j].pc = "done" /\ stops[j].via = "async"
        /\ srv[stops[j].target].pc = "returned"
        /\ stops[k].after_stop /\ stops[k].via = "sync"
        /\ stops[k].pc = "RuntimeError"

\* The handlers that were active when shutdown of server s first started have
\* been torn down: transport closed, task ended.
TornDown(s) ==
    \A c \in srv[s].at_shutdown : ~conn[s][c].open /\ conn[s][c].task = "done"

\* C14: when serving_done of a server is fulfilled, shutdown()/server_close()
\* of that server has returned: its handlers have been torn down, the
\* listener is closed and the server's listener handle is None.
C14_DoneAfterShutdown ==
    \A s \in Servers :
        srv[s].serving_done # "pending" =>
            /\ srv[s].shutdown_returned
            /\ TornDown(s)
            /\ srv[s].listener = "none"

\* C15: on shutdown of a TCP, TLS or Unix server, every handler that was
\* active when the shutdown started has its transport closed and its task
\* ended before the listener is closed.
C15_HandlersBeforeListener ==
    \A s \in Servers :
        srv[s].kind \in {"unix", "tcp"} /\ srv[s].closed_by_shutdown =>
            TornDown(s)

\* Server s is a serial server with auto_reconnect on which no shutdown has
\* been requested.
Reconnecting(s) ==
    srv[s].kind = "serial" /\ srv[s].auto_reconnect /\ ~srv[s].shutdown_requested

\* The step in which the serial connection of s is lost.
SerialLost(s) == conn[s][1].exists /\ ~conn[s][1].lost /\ conn'[s][1].lost

\* The step in which the reconnect task of s leaves its sleep of
\* reconnect_delay seconds.
DelayElapsed(s) ==
    srv[s].reconnecting_task = "sleeping" /\ srv'[s].reconnecting_task # "sleeping"

\* After a loss of the serial connection a reconnect task is scheduled.
ReconnectScheduled ==
    [][\A s \in Servers : Reconnecting(s) /\ SerialLost(s) =>
            srv'[s].reconnecting_task = "sleeping"]_vars

\* C16: on a serial server with auto_reconnect, after the serial connection
\* is lost a reconnect task is scheduled, and when reconnect_delay has elapsed
\* with no shutdown in between, the task makes a new attempt to open the
\* port (create_serial_connection).
C16_ReconnectAttempted ==
    /\ ReconnectScheduled
    /\ [][\A s \in Servers :
            /\ Reconnecting(s) /\ conn[s][1].lost
            /\ DelayElapsed(s) /\ ~srv'[s].shutdown_requested
            => srv'[s].attempts > srv[s].attempts]_vars

\* shutdown() of the serial server that stop call k acts on has run to its
\* end (pc "sleep1" or "done") or was ended by the CancelledError of the
\* reconnect task it awaited (pc "cancelled").
SerialShutdownRan(k) ==
    /\ stops[k].slot # NoServer
    /\ srv[stops[k].target].kind = "serial"
    /\ stops[k].pc \in {"cancelled", "sleep1", "done"}

C18_ServesUntilShutdown ==
    \A s \in Servers :
        srv[s].began /\ srv[s].pc = "returned" => srv[s].shutdown_requested

\* ------------------------------------------------- single-context claims
\* handled[i] is the record of a dispatched request whose execution returns a
\* response with should_respond true, with nothing raising on the way.
PlainRequest(i) ==
    /\ handled[i].accepted
    /\ requests[handled[i].seq].kind = "write"
    /\ requests[handled[i].seq].fault = None

\* The request of handled[i] was answered with exactly one normal response
\* carrying the slave id of the request.
AnsweredWithOwnSlave(i) ==
    /\ handled[i].nwritten = 1
    /\ Cardinality(WrittenFor(handled[i].seq)) = 1
    /\ \A w \in WrittenFor(handled[i].seq) :
         /\ written[w].packet.kind = "normal"
         /\ written[w].packet.slave_id = requests[handled[i].seq].slave_id

SilentResponse(i) ==
    /\ handled[i].accepted /\ ~handled[i].broadcast
    /\ requests[handled[i].seq].kind = "silent"
    /\ handled[i].exc = "none"

\* C20: a response whose should_respond is false is never passed to the
\* response_manipulator, and no bytes are written to the transport for it.
C20_SilentNotManipulated ==
    \A i \in 1..Len(handled) :
        SilentResponse(i) =>
            /\ ~handled[i].manipulated
            /\ handled[i].nwritten = 0
            /\ WrittenFor(handled[i].seq) = {}

\* ------------------------------------------------ handler teardown claims
\* An exception was raised while the handler processed a chunk.
ChunkRaised == \E i \in 1..Len(handled) : handled[i].raised

\* C21: on a datagram (UDP) server an unexpected exception raised while a
\* chunk is processed does not close the endpoint's transport; the handler
\* goes on serving later datagrams.
C21_DatagramNotClosed ==
    transport_kind = "datagram" /\ ChunkRaised /\ ~lost => transport_open

\* The task of handler c of server s has been cancelled: it has ended, or it
\* ends at its next step.
TaskCancelled(s, c) ==
    \/ conn[s][c].task = "done"
    \/ conn[s][c].task = "recv" /\ conn[s][c].must_cancel

\* The state of handler c of server s that connection_lost leaves.
LostHandler(s, c) ==
    /\ TaskCancelled(s, c)
    /\ c \notin srv[s].active
    /\ ~conn[s][c].running
    /\ conn[s][c].hook_calls = IF srv[s].kind = "serial" THEN 1 ELSE 0

\* C22: after connection_lost on a handler its task has been cancelled and
\* eventually ends, the handler is not in active_connections, running is
\* false, and on_connection_lost of the server (only the serial server has
\* one) has been called exactly once.
C22_ConnectionLost ==
    /\ [](\A s \in Servers, c \in Conns : conn[s][c].lost => LostHandler(s, c))
    /\ \A s \in Servers, c \in Conns :
           conn[s][c].lost ~> conn[s][c].task = "done"

\* C22 witness: the connection of a serial server was lost while its handler
\* waited for data, the hook has run and the task has ended.
C22_Witness ==
    \E s \in Servers :
        /\ srv[s].kind = "serial"
        /\ conn[s][1].lost /\ ~conn[s][1].aborted
        /\ conn[s][1].task = "done"
        /\ conn[s][1].hook_calls = 1
        /\ ~srv[s].transport

\* C23: whenever a handler task is cancelled, by connection_lost or by the
\* shutdown of a server of any type, the handler is deregistered from
\* active_connections, and it writes nothing to its transport after the
\* cancellation.
C23_CancelledHandler ==
    /\ \A s \in Servers, c \in Conns :
           TaskCancelled(s, c) ~> c \notin srv[s].active
    /\ [][\A s \in Servers, c \in Conns :
             TaskCancelled(s, c) => conn'[s][c].writes = conn[s][c].writes]_vars

\* C23 witness: the handler of a UDP server had written a response, was
\* cancelled by the shutdown while it was registered, and has ended and is
\* deregistered.
C23_Witness ==
    \E s \in Servers :
        /\ srv[s].kind = "udp" /\ srv[s].shutdown_returned
        /\ 1 \in srv[s].at_shutdown
        /\ conn[s][1].writes = 1
        /\ conn[s][1].task = "done"
        /\ 1 \notin srv[s].active

\* The step is connection_lost of handler a of server s, or the close of its
\* transport that handle() forces after an exception.
ConnectionEnds(s, a) ==
    \/ ~conn[s][a].lost /\ conn'[s][a].lost
    \/ /\ conn[s][a].open /\ ~conn'[s][a].open
       /\ stops' = stops /\ conn'[s][a].lost = conn[s][a].lost

\* C24: connection_lost, or a forced close after an exception, on one handler
\* leaves every other handler of the server as it was (running flag, task,
\* transport) and registered in active_connections if it was, and leaves the
\* listener as it was.
C24_OnlyTheAffected ==
    [][\A s \in Servers, a \in Conns :
          ConnectionEnds(s, a) =>
              /\ \A b \in Conns \ {a} :
                     /\ conn'[s][b] = conn[s][b]
                     /\ (b \in srv'[s].active) = (b \in srv[s].active)
              /\ srv'[s].listener = srv[s].listener]_vars

\* ------------------------------------------------------- tracer claims
\* C25: on a server of any type created with a request_tracer, the tracer
\* is called exactly once for every request that is dispatched.
C25_TracerCalled ==
    \A s \in Servers, c \in Conns :
        srv[s].tracer_config => conn[s][c].traced = conn[s][c].writes

C27_LostAndClose ==
    /\ tp.call.op = "connection_lost" =>
           /\ tp.call.lost = 1 /\ tp.call.made = 0 /\ tp.call.data = 0
           /\ ~tp.transport
           /\ tp.recv_buffer = <<>>
           /\ tp.call.started => tp.call.established
           /\ ~tp.call.established => tp.reconnect_task = tp.call.task_before
    /\ tp.call.op = "close" =>
           /\ ~tp.reconnect_task
           /\ tp.recv_buffer = <<>>
           /\ tp.call.made = 0 /\ tp.call.lost = 0 /\ tp.call.data = 0

\* close() was called after the loss of an established connection had
\* started a reconnect task.
C27_Witness ==
    /\ tp.call.op = "close"
    /\ tp.call.prev = "connection_lost"
    /\ tp.call.task_before

\* C28: data_received appends the bytes to recv_buffer, calls cb_handle_data
\* once and removes from the front of the buffer exactly the bytes the
\* callback reports consumed: the consumed bytes followed by the buffer that
\* is left are the old buffer followed by the new bytes.
C28_FrontConsumed ==
    tp.call.op = "data_received" =>
        /\ tp.call.data = 1
        /\ tp.call.cut <= Len(tp.call.before \o tp.call.data_in)
        /\ SubSeq(tp.call.before \o tp.call.data_in, 1, tp.call.cut) \o tp.recv_buffer
             = tp.call.before \o tp.call.data_in

\* A call that found unconsumed bytes in the buffer and consumed some but
\* not all of the bytes.
C28_Witness ==
    /\ tp.call.op = "data_received"
    /\ tp.call.before # <<>>
    /\ tp.call.cut > 0
    /\ tp.recv_buffer # <<>>

\* ------------------------------------------------------ split echo claims
\* C29: with handle_local_echo and one transmitted response, however its echo
\* is split over consecutive chunks (the last of them possibly going on with
\* request bytes), _sent is what is still to be echoed and every chunk queues
\* exactly its bytes after the echo, so the queue holds exactly the request
\* bytes; and a chunk that neither is a prefix of _sent nor contains _sent
\* clears _sent and is queued unchanged.
C29_SplitEchoStripped ==
    /\ (server.handle_local_echo /\ Len(written) <= 1 /\ echo_clean) =>
           /\ sent = unechoed
           /\ last.called =>
                  /\ last.queued = DropFirst(last.data, last.echo)
                  /\ last.put = (last.queued # <<>>)
                  /\ Len(receive_queue) = last.qlen_before + (IF last.put THEN 1 ELSE 0)
                  /\ last.put => receive_queue[Len(receive_queue)].data = last.queued
    /\ (/\ server.handle_local_echo
        /\ last.called
        /\ last.sent_before # <<>>
        /\ ~Contains(last.data, last.sent_before)
        /\ ~StartsWith(last.sent_before, last.data)) =>
           /\ last.sent_after = <<>>
           /\ last.put
           /\ last.queued = last.data

\* The echo of the one response came in two chunks and the second chunk went
\* on with request bytes.
C29_Witness ==
    /\ server.handle_local_echo
    /\ Len(written) = 1
    /\ echo_clean
    /\ last.called
    /\ last.echo > 0
    /\ last.echo < Len(written[1].packet)
    /\ unechoed = <<>>
    /\ last.queued # <<>>

\* ------------------------------------------------------- slave list claims
\* The members of a sequence.
Members(q) == {q[i] : i \in 1..Len(q)}

\* C30: the slave list the framer is given with a chunk holds the slaves of
\* context.slaves() as they are when the chunk is taken from the queue, and
\* 0 in addition exactly when broadcast_enable is set, also when the slave
\* contexts were changed while the handler waited for the chunk.
C30_CurrentSlaves ==
    \A i \in 1..Len(handled) :
        Members(handled[i].allowed)
            = Members(handled[i].ctx_slaves)
                \cup (IF server.broadcast_enable THEN {0} ELSE {})

\* ------------------------------------------- repeated serve_forever claims
\* C31: serve_forever called on a Unix, TCP, TLS or UDP server object whose
\* listener or endpoint is running raises RuntimeError and leaves the
\* listener, active_connections, serving and serving_done as they are.
C31_RunningRaises ==
    [][\A s \in Servers :
          (srv[s].again = "none" /\ srv'[s].again # "none" /\ srv[s].listener # "none")
              => /\ srv'[s].again = "RuntimeError"
                 /\ srv'[s].listener = srv[s].listener
                 /\ srv'[s].active = srv[s].active
                 /\ srv'[s].serving = srv[s].serving
                 /\ srv'[s].serving_done = srv[s].serving_done
                 /\ conn'[s] = conn[s]]_vars

\* serve_forever was called on a server that serves with a connection.
C31_Witness ==
    \E s \in Servers :
        /\ srv[s].again = "RuntimeError"
        /\ srv[s].listener = "open"
        /\ srv[s].active # {}

\* C40: a Unix, TCP or UDP server object whose shutdown has completed can
\* serve again: a later serve_forever creates a new listener and serves
\* without raising, and serving and serving_done are not fulfilled a second
\* time.
C40_ServesAgain ==
    \A s \in Servers :
        (srv[s].again_after_shutdown /\ srv[s].again \notin {"none", "creating"})
            => IF srv[s].listener = "open" \/ srv[s].again = "cancelled"
               THEN srv[s].again \in {"serving", "returned", "cancelled"}
               ELSE srv[s].again \in {"raised", "returned"}

\* ------------------------------------------------------- signal claims
\* C32: on a Unix, TCP, TLS or UDP server serving_done is fulfilled only
\* after serving was fulfilled, and serving is fulfilled only once the
\* listener or endpoint exists, also when its creation fails.
C32_ServingBeforeDone ==
    \A s \in Servers :
        /\ srv[s].serving_done # "pending" => srv[s].serving
        /\ srv[s].serving => srv[s].began /\ ~srv[s].create_failed

\* ------------------------------------------------ active_connections claims
\* The handlers of server s whose connection was made and is not lost.
OpenConns(s) == {c \in Conns : conn[s][c].exists /\ ~conn[s][c].lost}

\* C33: after any sequence of connection_made and connection_lost events
\* (and before a shutdown empties the map) active_connections holds exactly
\* the handlers whose connection is open, also when two connections report
\* the same client_address.
C33_ExactlyOpen ==
    \A s \in Servers : ~srv[s].shutdown_requested => srv[s].active = OpenConns(s)

\* C34: after the shutdown of a TCP server has closed the listener and
\* returned, every handler task of the server is finished or cancelled and
\* the transport of every accepted connection is closed, also when a client
\* was accepted while shutdown was suspended between its handlers and the
\* listener.
C34_NoHandlerLeft ==
    \A s \in Servers :
        (/\ srv[s].kind = "tcp"
         /\ srv[s].shutdown_returned
         /\ srv[s].closed_by_shutdown
         /\ srv[s].listener = "none") =>
            \A c \in Conns :
                conn[s][c].exists =>
                    /\ conn[s][c].task = "done" \/ conn[s][c].must_cancel
                    /\ ~conn[s][c].open

\* ------------------------------------------------------- slot claims
\* C35: a stop that completes clears the slot only of the server it shut
\* down: when another server was registered while the stop was in progress,
\* that server is still the active server after the stop has completed.
C35_OnlyOwnSlot ==
    [][\A k \in 1..Len(stops) :
          (/\ stops[k].pc = "sleep1"
           /\ stops'[k].pc = "done"
           /\ active_server # stops[k].target)
              => active_server' = active_server]_vars

\* ------------------------------------------------------- reconnect claims
\* C36: on a serial server at most one reconnect task is pending at any
\* time; without auto_reconnect no reconnect task is ever created, and a
\* SerialException of the open made by start() is raised to its caller.
C36_OneReconnectTask ==
    \A s \in Servers :
        /\ srv[s].pending <= 1
        /\ ~srv[s].auto_reconnect =>
               /\ srv[s].reconnecting_task = "none"
               /\ srv[s].pending = 0
               /\ srv[s].open_failed = "SerialException" => srv[s].pc = "raised"

\* A serial server without auto_reconnect lost its connection.
C36_Witness ==
    \E s \in Servers :
        /\ srv[s].kind = "serial"
        /\ ~srv[s].auto_reconnect
        /\ conn[s][1].lost
        /\ ~srv[s].shutdown_requested

\* C37: the shutdown of a serial server that has a reconnect task pending
\* ends normally, and when it has ended reconnecting_task, transport and
\* protocol are None and active_connections is empty.
C37_ShutdownNormal ==
    \A s \in Servers :
        srv[s].reconnect_at_cancel = "sleeping" =>
            /\ \A k \in 1..Len(stops) : stops[k].target = s => stops[k].pc # "cancelled"
            /\ srv[s].reconnecting_task = "none"
            /\ ~srv[s].transport
            /\ ~srv[s].protocol
            /\ srv[s].active = {}

\* ------------------------------------------------------- decoder claims
\* C39: for every Start*Server function the custom functions are in the
\* server's decoder before a handler of the server exists that could
\* dispatch a request, and they are registered once: the registry is not
\* changed afterwards.
C39_RegisteredFirst ==
    \A s \in Servers :
        /\ srv[s].registers <= 1
        /\ \A c \in Conns : conn[s][c].exists => srv[s].registers = 1

\* The handler of a serial server, which is made by start() before
\* _serverList.run is called, has answered a request.
C39_Witness ==
    \E s \in Servers :
        /\ srv[s].kind = "serial"
        /\ conn[s][1].writes > 0

\* ------------------------------------------------------- forced close claims
\* C38: after an exception in the handler loop of a stream connection has
\* forced transport.close(), the handler dispatches no further request and
\* writes nothing more on the connection, also when chunks are waiting in
\* its receive queue.
C38_NothingAfterClose ==
    transport_kind = "stream" =>
        \A i, j \in 1..Len(handled) :
            (i < j /\ handled[i].raised) =>
                /\ ~handled[j].accepted
                /\ handled[j].nwritten = 0

====
